---- MODULE Spec2Model ----
(***************************************************************************)
(* Model of the APDU frame parser (src/src/APDU.ts) and of the status-word *)
(* response handler (handleAPDUResponse, next to the APDUError class).     *)
(*                                                                         *)
(* Both are synchronous functions without shared state, so the state of    *)
(* the model is the call in progress (call) and what it produced (ret).    *)
(*                                                                         *)
(* Encoding of JavaScript values:                                          *)
(*   number[]            a sequence of integers                            *)
(*   string              a sequence of one-character strings (Chars), so   *)
(*                       that split, the regular expression and parseInt   *)
(*                       are computed; Str(s) is the text of s             *)
(*   number | undefined  <<n>> for the number n, <<>> for undefined (and   *)
(*                       for NaN where arithmetic produced it)             *)
(*   a throw             a record [kind |-> name of the error class, ...]  *)
(***************************************************************************)
EXTENDS Integers, Sequences, FiniteSets, TLC

VARIABLES call, ret
vars == <<call, ret>>

----------------------------------------------------------------------------
(* Bounds of the explored inputs *)

MaxArrLen == 7
MaxTokens == 3
MaxRespLen == 3
MaxExpectedLen == 3

----------------------------------------------------------------------------
(* Generic helpers for the JavaScript built-ins the code uses *)

Min(a, b) == IF a < b THEN a ELSE b
Max(a, b) == IF a > b THEN a ELSE b

BoundedSeq(S, n) == UNION {[1..k -> S] : k \in 0..n}

undefined == <<>>
NaN == <<>>

\* a[i] with a zero-based index: the element, or undefined past the end
At(a, i) == IF i >= 0 /\ i < Len(a) THEN <<a[i + 1]>> ELSE undefined

\* Array.prototype.slice(start, end): end is clamped, NaN converts to 0
slice(a, start, end) ==
  LET n == Len(a)
      e == IF end = NaN THEN 0 ELSE end[1]
      k == IF start < 0 THEN Max(n + start, 0) ELSE Min(start, n)
      f == IF e < 0 THEN Max(n + e, 0) ELSE Min(e, n)
  IN SubSeq(a, k + 1, f)

\* Array.prototype.indexOf: zero-based index of the first strictly equal element
indexOf(a, v) ==
  IF \E i \in 1..Len(a) : a[i] = v
  THEN (CHOOSE i \in 1..Len(a) : a[i] = v /\ \A j \in 1..(i - 1) : a[j] # v) - 1
  ELSE -1

\* the text of a sequence of characters
RECURSIVE Str(_)
Str(s) == IF s = <<>> THEN "" ELSE Head(s) \o Str(Tail(s))

\* Array.prototype.join(sep) on an array of texts
RECURSIVE join(_, _)
join(a, sep) ==
  IF a = <<>> THEN ""
  ELSE IF Len(a) = 1 THEN a[1]
  ELSE a[1] \o sep \o join(Tail(a), sep)

\* the elements of a set of integers in ascending order (Object.keys of
\* integer-like keys enumerates them ascending)
RECURSIVE Ascending(_)
Ascending(S) ==
  IF S = {} THEN <<>>
  ELSE LET m == CHOOSE x \in S : \A y \in S : x <= y
       IN <<m>> \o Ascending(S \ {m})

LowerDigits == <<"0","1","2","3","4","5","6","7","8","9","a","b","c","d","e","f">>
UpperDigits == <<"0","1","2","3","4","5","6","7","8","9","A","B","C","D","E","F">>
HexChars == {LowerDigits[i] : i \in 1..16} \cup {UpperDigits[i] : i \in 1..16}

\* value of one hexadecimal digit, either case
HexVal(c) == (CHOOSE i \in 1..16 : LowerDigits[i] = c \/ UpperDigits[i] = c) - 1

\* Number.prototype.toString(16), as a sequence of characters
RECURSIVE NatToHex(_)
NatToHex(n) ==
  IF n < 16 THEN <<LowerDigits[n + 1]>>
  ELSE NatToHex(n \div 16) \o <<LowerDigits[(n % 16) + 1]>>

toString16(n) == IF n < 0 THEN <<"-">> \o NatToHex(-n) ELSE NatToHex(n)

\* String.prototype.toUpperCase on one character / on a string
UpperChar(c) ==
  IF \E i \in 1..16 : LowerDigits[i] = c
  THEN UpperDigits[CHOOSE i \in 1..16 : LowerDigits[i] = c]
  ELSE c

toUpperCase(s) == [i \in 1..Len(s) |-> UpperChar(s[i])]

\* String.prototype.includes(" ")
includesSpace(s) == \E i \in 1..Len(s) : s[i] = " "

\* String.prototype.split(" ")
RECURSIVE split(_)
split(s) ==
  IF ~includesSpace(s) THEN <<s>>
  ELSE LET p == CHOOSE i \in 1..Len(s) :
                  s[i] = " " /\ \A j \in 1..(i - 1) : s[j] # " "
       IN <<SubSeq(s, 1, p - 1)>> \o split(SubSeq(s, p + 1, Len(s)))

\* /^[0-9a-fA-F]{2}$/
MatchesHexPair(s) == Len(s) = 2 /\ s[1] \in HexChars /\ s[2] \in HexChars

----------------------------------------------------------------------------
(* src/src/APDU.ts *)

Thrown(kind, message) ==
  [kind |-> kind, message |-> message, invalidIndices |-> <<>>,
   text |-> <<>>, highlighted |-> <<>>]

\* parseByte: whether it throws, and the value it returns when it does not
parseByteThrows(hex) == ~MatchesHexPair(hex)
parseByte(hex) == 16 * HexVal(hex[1]) + HexVal(hex[2])

validateByte(byte) == 0 <= byte /\ byte >= 255

\* String.prototype.search of an anchored pattern: 0 on a match, else -1
search(byte) == IF MatchesHexPair(byte) THEN 0 ELSE -1

validateByteString(byte) == search(byte) > 0

highligtBytes(bytes, highlight) ==
  [i \in 1..Len(bytes) |->
     IF ~(\E h \in 1..Len(highlight) : highlight[h] = i - 1)
     THEN bytes[i]
     ELSE "[" \o bytes[i] \o "]"]

byteArrayToDecimalThrows(bytes) ==
  \/ \E i \in 1..Len(bytes) : bytes[i] < 0 \/ bytes[i] > 255
  \/ Len(bytes) \notin {0, 1, 3}

\* the en dash of the first message is written in ASCII
byteArrayToDecimalMessage(bytes) ==
  IF \E i \in 1..Len(bytes) : bytes[i] < 0 \/ bytes[i] > 255
  THEN "Invalid byte array: must contain only integers 0-255"
  ELSE "Invalid frame length: " \o ToString(Len(bytes))

byteArrayToDecimal(bytes) ==
  IF Len(bytes) = 0 THEN 0
  ELSE IF Len(bytes) = 1 THEN bytes[1]
  ELSE bytes[1] * 65536 + bytes[2] * 256 + bytes[3]

validateAPDUThrows(bytes) == Len(bytes) < 4

validateAPDUMessage ==
  "Insufficient bytes. You must at least provide 4 (CLA, INS, P1, P2)"

\* getInvalidByteMap: isNum stands for Number.isInteger(byte), which is the
\* same for every element of an input (number[] or the split string)
invalidPositions(bytes, isNum) ==
  {i \in 1..Len(bytes) :
     IF isNum THEN ~validateByte(bytes[i]) ELSE ~validateByteString(bytes[i])}

getInvalidByteMapThrows(bytes, isNum) ==
  ~isNum /\ \E i \in invalidPositions(bytes, isNum) : parseByteThrows(bytes[i])

getInvalidByteMapMessage(bytes, isNum) ==
  LET bad == {i \in invalidPositions(bytes, isNum) : parseByteThrows(bytes[i])}
      first == CHOOSE i \in bad : \A j \in bad : i <= j
  IN "Invalid hex byte: " \o Str(bytes[first])

getInvalidByteMap(bytes, isNum) ==
  LET keys == {indexOf(bytes, bytes[i]) : i \in invalidPositions(bytes, isNum)}
  IN [k \in keys |-> IF isNum THEN bytes[k + 1] ELSE parseByte(bytes[k + 1])]

\* lines 99-113 and 122-133: the APDUError thrown for invalid bytes; text is
\* the rendering of each entry before highlighting
invalidByteError(bytes, isNum) ==
  LET invalidByteMap == getInvalidByteMap(bytes, isNum)
      invalidIndices == Ascending(DOMAIN invalidByteMap)
      text == [i \in 1..Len(bytes) |->
                 IF isNum THEN Str(toString16(bytes[i])) ELSE Str(bytes[i])]
      highlighted == highligtBytes(text, invalidIndices)
  IN [kind |-> "APDUError",
      message |-> "Invalid byte"
                  \o (IF Cardinality(DOMAIN invalidByteMap) > 1 THEN "s" ELSE "")
                  \o " ("
                  \o join([i \in 1..Len(invalidIndices) |->
                             ToString(invalidIndices[i])], ",")
                  \o "): " \o join(highlighted, " "),
      invalidIndices |-> invalidIndices,
      text |-> text,
      highlighted |-> highlighted]

\* lines 139-154: the fields read from parsedData
decompose(parsedData, extendedFrames) ==
  LET lc == IF extendedFrames
            THEN slice(parsedData, 4, <<7>>)
            ELSE slice(parsedData, 4, <<5>>)
  IN IF byteArrayToDecimalThrows(lc)
     THEN Thrown("Error", byteArrayToDecimalMessage(lc))
     ELSE LET dataLength == At(parsedData, byteArrayToDecimal(lc))
              end == IF dataLength = undefined THEN NaN
                     ELSE <<dataLength[1] + 5>>
          IN [kind |-> "APDU",
              cla |-> At(parsedData, 0),
              ins |-> At(parsedData, 1),
              p1 |-> At(parsedData, 2),
              p2 |-> At(parsedData, 3),
              lc |-> lc,
              data |-> slice(parsedData, 5, end),
              le |-> IF end # NaN /\ Len(parsedData) > end[1]
                     THEN slice(parsedData, end[1], <<Len(parsedData)>>)
                     ELSE <<>>]

\* new APDU(data, extendedFrames); data is [isArray, value]
APDU(data, extendedFrames) ==
  IF data.isArray
  THEN IF ~(\A i \in 1..Len(data.value) : validateByte(data.value[i]))
       THEN invalidByteError(data.value, TRUE)
       ELSE decompose(data.value, extendedFrames)
  ELSE IF includesSpace(data.value)
  THEN LET splitData == split(data.value)
       IN IF ~(\A i \in 1..Len(splitData) : validateByteString(splitData[i]))
          THEN IF getInvalidByteMapThrows(splitData, FALSE)
               THEN Thrown("Error", getInvalidByteMapMessage(splitData, FALSE))
               ELSE invalidByteError(splitData, FALSE)
          \* line 136 declares a new block-scoped parsedData; the outer one,
          \* which the fields are read from, stays empty
          ELSE decompose(<<>>, extendedFrames)
  ELSE decompose(<<>>, extendedFrames)

----------------------------------------------------------------------------
(* handleAPDUResponse and its table.  The typographic quotes and dashes of *)
(* the descriptions are written in ASCII.                                  *)

apduStatusWords ==
  ("6E" :> (("00" :> <<"E", "Class not supported">>)
         @@ ("XX" :> <<"E", "Instruction class not supported (procedure byte), (ISO 7816-3)">>)))
  @@
  ("6D" :> (("00" :> <<"E", "Instruction code not supported or invalid">>)
         @@ ("XX" :> <<"E", "Instruction code not programmed or invalid (procedure byte), (ISO 7816-3)">>)))
  @@
  ("6C" :> (("00" :> <<"E", "Incorrect P3 length.">>)
         @@ ("XX" :> <<"E", "Bad length value in Le; 'xx' is the correct exact Le">>)))
  @@
  ("6B" :> (("00" :> <<"E", "Wrong parameter(s) P1-P2">>)
         @@ ("XX" :> <<"E", "Reference incorrect (procedure byte), (ISO 7816-3)">>)))
  @@
  ("6A" :> (("00" :> <<"E", "No information given (Bytes P1 and/or P2 are incorrect)">>)
         @@ ("80" :> <<"E", "The parameters in the data field are incorrect.">>)
         @@ ("81" :> <<"E", "Function not supported">>)
         @@ ("82" :> <<"E", "File not found">>)
         @@ ("83" :> <<"E", "Record not found">>)
         @@ ("84" :> <<"E", "There is insufficient memory space in record or file">>)
         @@ ("85" :> <<"E", "Lc inconsistent with TLV structure">>)
         @@ ("86" :> <<"E", "Incorrect P1 or P2 parameter.">>)
         @@ ("87" :> <<"E", "Lc inconsistent with P1-P2">>)
         @@ ("88" :> <<"E", "Referenced data not found">>)
         @@ ("89" :> <<"E", "File already exists">>)
         @@ ("8A" :> <<"E", "DF name already exists.">>)
         @@ ("F0" :> <<"E", "Wrong parameter value">>)
         @@ ("FX" :> <<"E", "-">>)
         @@ ("XX" :> <<"E", "RFU">>)))
  @@
  ("67" :> (("00" :> <<"E", "Wrong length">>)
         @@ ("XX" :> <<"E", "Length incorrect (procedure)(ISO 7816-3)">>)))
  @@
  ("68" :> (("00" :> <<"E", "No information given (The request function is not supported by the card)">>)
         @@ ("81" :> <<"E", "Logical channel not supported">>)
         @@ ("82" :> <<"E", "Secure messaging not supported">>)
         @@ ("83" :> <<"E", "Last command of the chain expected">>)
         @@ ("84" :> <<"E", "Command chaining not supported">>)
         @@ ("FX" :> <<"E", "-">>)
         @@ ("XX" :> <<"E", "RFU">>)))
  @@
  ("69" :> (("00" :> <<"E", "No information given (Command not allowed)">>)
         @@ ("01" :> <<"E", "Command not accepted (inactive state)">>)
         @@ ("81" :> <<"E", "Command incompatible with file structure">>)
         @@ ("82" :> <<"E", "Security condition not satisfied.">>)
         @@ ("83" :> <<"E", "Authentication method blocked">>)
         @@ ("84" :> <<"E", "Referenced data reversibly blocked (invalidated)">>)
         @@ ("85" :> <<"E", "Conditions of use not satisfied.">>)
         @@ ("86" :> <<"E", "Command not allowed (no current EF)">>)
         @@ ("87" :> <<"E", "Expected secure messaging (SM) object missing">>)
         @@ ("88" :> <<"E", "Incorrect secure messaging (SM) data object">>)
         @@ ("96" :> <<"E", "Data must be updated again">>)
         @@ ("E1" :> <<"E", "POL1 of the currently Enabled Profile prevents this action.">>)
         @@ ("F0" :> <<"E", "Permission Denied">>)
         @@ ("F1" :> <<"E", "Permission Denied - Missing Privilege">>)
         @@ ("FX" :> <<"E", "-">>)
         @@ ("XX" :> <<"E", "RFU">>)))
  @@
  ("90" :> (("00" :> <<"I", "Command successfully executed (OK).">>)
         @@ ("04" :> <<"W", "PIN not succesfully verified, 3 or more PIN tries left">>)
         @@ ("08" :> <<"", "Key/file not found">>)
         @@ ("80" :> <<"W", "Unblock Try Counter has reached zero">>)))
  @@
  ("91" :> (("00" :> <<"", "OK">>)
         @@ ("01" :> <<"", "States.activity, States.lock Status or States.lockable has wrong value">>)
         @@ ("02" :> <<"", "Transaction number reached its limit">>)
         @@ ("0C" :> <<"", "No changes">>)
         @@ ("0E" :> <<"", "Insufficient NV-Memory to complete command">>)
         @@ ("1C" :> <<"", "Command code not supported">>)
         @@ ("1E" :> <<"", "CRC or MAC does not match data">>)
         @@ ("40" :> <<"", "Invalid key number specified">>)
         @@ ("7E" :> <<"", "Length of command string invalid">>)
         @@ ("9D" :> <<"", "Not allow the requested command">>)
         @@ ("9E" :> <<"", "Value of the parameter invalid">>)
         @@ ("A0" :> <<"", "Requested AID not present on PICC">>)
         @@ ("A1" :> <<"", "Unrecoverable error within application">>)
         @@ ("AE" :> <<"", "Authentication status does not allow the requested command">>)
         @@ ("AF" :> <<"", "Additional data frame is expected to be sent">>)
         @@ ("BE" :> <<"", "Out of boundary">>)
         @@ ("C1" :> <<"", "Unrecoverable error within PICC">>)
         @@ ("CA" :> <<"", "Previous Command was not fully completed">>)
         @@ ("CD" :> <<"", "PICC was disabled by an unrecoverable error">>)
         @@ ("CE" :> <<"", "Number of Applications limited to 28">>)
         @@ ("DE" :> <<"", "File or application already exists">>)
         @@ ("EE" :> <<"", "Could not complete NV-write operation due to loss of power">>)
         @@ ("F0" :> <<"", "Specified file number does not exist">>)
         @@ ("F1" :> <<"", "Unrecoverable error within file">>)))

defaultExpected == <<144, 0>>

\* lines 124-126, off by one: only the empty array falls back
expectedOrDefaultOffByOne(expected) ==
  IF Len(expected) < 1 THEN <<144, 0>> ELSE expected

\* lines 124-126
expectedOrDefault(expected) ==
  IF Len(expected) < 2 THEN <<144, 0>> ELSE expected

\* lines 132-139, without the zero padding
statusHexNoPad(byte) == Str(toUpperCase(toString16(byte)))

\* lines 132-139: byte.toString(16).toUpperCase(), zero-padded to two characters
statusHex(byte) ==
  LET sw == toUpperCase(toString16(byte))
  IN Str(IF Len(sw) < 2 THEN <<"0">> \o sw ELSE sw)

\* lines 147-158 with the "I" and "W" cases exchanged
severityPrefixSwapped(tag) ==
  IF tag = "E" THEN "(Error) "
  ELSE IF tag = "I" THEN "(Warning) "
  ELSE IF tag = "W" THEN "(Info) "
  ELSE ""

\* lines 147-158: the switch on error[0]
severityPrefix(tag) ==
  IF tag = "E" THEN "(Error) "
  ELSE IF tag = "I" THEN "(Info) "
  ELSE IF tag = "W" THEN "(Warning) "
  ELSE ""

\* lines 165-169 with the payload cut one byte late
responseResultOffByOne(bytes) ==
  [kind |-> "result",
   data |-> slice(bytes, 0, <<Len(bytes) - 1>>),
   sw1 |-> At(bytes, Len(bytes) - 2),
   sw2 |-> At(bytes, Len(bytes) - 1)]

\* lines 165-169
responseResult(bytes) ==
  [kind |-> "result",
   data |-> slice(bytes, 0, <<Len(bytes) - 2>>),
   sw1 |-> At(bytes, Len(bytes) - 2),
   sw2 |-> At(bytes, Len(bytes) - 1)]

handleAPDUResponse(bytes, expectedArg) ==
  IF Len(bytes) < 3
  THEN Thrown("APDUError", "Insufficient byte length")
  ELSE
    LET expected == expectedOrDefault(expectedArg)
    IN IF \/ At(expected, 0) # At(bytes, Len(bytes) - 2)
          \/ At(expected, 1) # At(bytes, Len(bytes) - 1)
       THEN LET sw1 == statusHex(bytes[Len(bytes) - 1])
                sw2 == statusHex(bytes[Len(bytes)])
            IN IF /\ sw1 \in DOMAIN apduStatusWords
                  /\ sw2 \in DOMAIN apduStatusWords[sw1]
               THEN LET error == apduStatusWords[sw1][sw2]
                    IN Thrown("APDUError", severityPrefix(error[1]) \o error[2])
               ELSE Thrown("APDUError",
                           "Unexpected response. Status words: "
                           \o sw1 \o ", " \o sw2)
       ELSE responseResult(bytes)

----------------------------------------------------------------------------
(* Inputs *)

ArrVals == {0, 255, 256}

ExampleArrays ==
  { <<0, 164, 4, 0, 2, 63, 0>>,
    <<0, 164, 4, 0>>,
    <<0, 1, 2>>,
    <<-1, -1, 0, 0, 0>>,
    <<300, 0, 0, 0>>,
    <<256, 256, 256, 256>>,
    <<255, 255, 255, 255, 256>>,
    <<0, 164, 4, 0, 0, 0, 1, 63, 1>> }

ArrayInputs == BoundedSeq(ArrVals, MaxArrLen) \cup ExampleArrays

Tokens == { <<"0","0">>, <<"A","4">>, <<"a","f">>, <<"z","z">>, <<"0">>, <<>> }

ExampleTokenLists ==
  { << <<"0","0">>, <<"A","4">>, <<"0","4">>, <<"0","0">>, <<"0","2">>,
       <<"3","F">>, <<"0","0">> >>,
    << <<"0","0">>, <<"z","z">>, <<"z","z">>, <<"0","0">> >>,
    << <<"0","0">>, <<"a","4">>, <<"0","4">>, <<"0","0">> >> }

\* a string is the tokens joined by single spaces
RECURSIVE joinChars(_)
joinChars(toks) ==
  IF Len(toks) = 1 THEN toks[1]
  ELSE toks[1] \o <<" ">> \o joinChars(Tail(toks))

StringInputs ==
  {joinChars(t) : t \in (BoundedSeq(Tokens, MaxTokens) \ {<<>>}) \cup ExampleTokenLists}

ProbeInts == -2 .. 257

ProbeChars == {"0", "9", "a", "f", "A", "F", "g", "G", "z", " ", "-"}

ProbeStrings == [1..2 -> ProbeChars]

RespVals == {0, 4, 106, 130, 144}

ExampleResponses ==
  { <<0, 144, 0>>, <<1, 18, 52>>, <<0, 110, 1>>, <<0, 144, 4>>, <<0, 144, 8>>,
    <<0, 145, 0>>, <<0, 106, 240>>, <<0, 105, 245>>, <<0, 10, 11>>,
    <<1, 2, 106, 130>> }

ResponseInputs == BoundedSeq(RespVals, MaxRespLen) \cup ExampleResponses

ExpectedVals == {0, 106, 130, 144}

ExpectedInputs == BoundedSeq(ExpectedVals, MaxExpectedLen)

NoCall == [fn |-> "none"]
NoRet == [kind |-> "none"]

----------------------------------------------------------------------------
(* Actions: one per entry point *)

Init == call = NoCall /\ ret = NoRet

NewAPDUFromArray ==
  /\ call = NoCall
  /\ \E bytes \in ArrayInputs, extendedFrames \in BOOLEAN :
      /\ call' = [fn |-> "APDU", isArray |-> TRUE, value |-> bytes,
                  extendedFrames |-> extendedFrames]
      /\ ret' = APDU([isArray |-> TRUE, value |-> bytes], extendedFrames)

NewAPDUFromString ==
  /\ call = NoCall
  /\ \E s \in StringInputs, extendedFrames \in BOOLEAN :
      /\ call' = [fn |-> "APDU", isArray |-> FALSE, value |-> s,
                  extendedFrames |-> extendedFrames]
      /\ ret' = APDU([isArray |-> FALSE, value |-> s], extendedFrames)

CallValidateByte ==
  /\ call = NoCall
  /\ \E b \in ProbeInts :
      /\ call' = [fn |-> "validateByte", value |-> b]
      /\ ret' = [kind |-> "boolean", value |-> validateByte(b)]

CallValidateByteString ==
  /\ call = NoCall
  /\ \E s \in ProbeStrings :
      /\ call' = [fn |-> "validateByteString", value |-> s]
      /\ ret' = [kind |-> "boolean", value |-> validateByteString(s)]

\* handleAPDUResponse(bytes): expected takes its default value
HandleResponseDefault ==
  /\ call = NoCall
  /\ \E bytes \in ResponseInputs :
      /\ call' = [fn |-> "handleAPDUResponse", bytes |-> bytes,
                  expected |-> defaultExpected, expectedGiven |-> FALSE]
      /\ ret' = handleAPDUResponse(bytes, defaultExpected)

\* handleAPDUResponse(bytes, expected)
HandleResponse ==
  /\ call = NoCall
  /\ \E bytes \in ResponseInputs, expected \in ExpectedInputs :
      /\ call' = [fn |-> "handleAPDUResponse", bytes |-> bytes,
                  expected |-> expected, expectedGiven |-> TRUE]
      /\ ret' = handleAPDUResponse(bytes, expected)

\* the caller is done with the result; every call is independent of the
\* calls before it
Return ==
  /\ call # NoCall
  /\ call' = NoCall
  /\ ret' = NoRet

Next ==
  \/ Return
  \/ HandleResponseDefault
  \/ HandleResponse
  \/ NewAPDUFromArray
  \/ NewAPDUFromString
  \/ CallValidateByte
  \/ CallValidateByteString

Spec == Init /\ [][Next]_vars

----------------------------------------------------------------------------
(* What the specification says of a call: the terms the properties use *)

IsByte(b) == 0 <= b /\ b <= 255

IsConstruction == call.fn = "APDU"
IsResponse == call.fn = "handleAPDUResponse"

\* the entries of the input of a construction: the numbers of an array, the
\* space-separated tokens of a string
Entries == IF call.isArray THEN call.value ELSE split(call.value)

EntryValid(e) == IF call.isArray THEN IsByte(e) ELSE MatchesHexPair(e)

AllEntriesValid == \A i \in 1..Len(Entries) : EntryValid(Entries[i])

\* zero-based indices of the invalid entries
InvalidIndexSet == {i - 1 : i \in {j \in 1..Len(Entries) : ~EntryValid(Entries[j])}}

\* the byte values of valid entries
EntryBytes ==
  [i \in 1..Len(Entries) |->
     IF call.isArray THEN Entries[i]
     ELSE 16 * HexVal(Entries[i][1]) + HexVal(Entries[i][2])]

\* big-endian value of a length field of 0, 1 or 3 bytes
LcValue(lc) ==
  IF Len(lc) = 0 THEN 0
  ELSE IF Len(lc) = 1 THEN lc[1]
  ELSE IF Len(lc) = 3 THEN lc[1] * 65536 + lc[2] * 256 + lc[3]
  ELSE -1

\* field decomposition, steps 2 to 6 of the parser's contract
ExpectedFields(b, extended) ==
  LET lc == SubSeq(b, 5, Min(Len(b), IF extended THEN 7 ELSE 5))
      n == LcValue(lc)
      first == 4 + Len(lc)
  IN [kind |-> "APDU",
      cla |-> <<b[1]>>, ins |-> <<b[2]>>, p1 |-> <<b[3]>>, p2 |-> <<b[4]>>,
      lc |-> lc,
      data |-> SubSeq(b, first + 1, Min(Len(b), first + n)),
      le |-> SubSeq(b, first + n + 1, Len(b))]

\* a byte as two uppercase hexadecimal digits
TwoHex(b) == UpperDigits[(b \div 16) + 1] \o UpperDigits[(b % 16) + 1]

RespLen == Len(call.bytes)
Sw1 == call.bytes[RespLen - 1]
Sw2 == call.bytes[RespLen]

ExpectedIsPair == Len(call.expected) = 2

TrailerIs(pair) == Sw1 = pair[1] /\ Sw2 = pair[2]

\* the table has an entry under exactly the two hexadecimal keys of the trailer
HasExactEntry ==
  /\ TwoHex(Sw1) \in DOMAIN apduStatusWords
  /\ TwoHex(Sw2) \in DOMAIN apduStatusWords[TwoHex(Sw1)]

SeverityTag(t) ==
  CASE t = "I" -> "(Info) "
    [] t = "W" -> "(Warning) "
    [] t = "E" -> "(Error) "
    [] OTHER -> ""

KnownStatusMessage ==
  LET entry == apduStatusWords[TwoHex(Sw1)][TwoHex(Sw2)]
  IN SeverityTag(entry[1]) \o entry[2]

UnexpectedMessage ==
  "Unexpected response. Status words: " \o TwoHex(Sw1) \o ", " \o TwoHex(Sw2)

WildcardKeys == {"XX", "FX"}

\* the messages that matching a wildcard key would produce
WildcardMessages ==
  UNION {{SeverityTag(apduStatusWords[k1][k2][1]) \o apduStatusWords[k1][k2][2] :
            k2 \in WildcardKeys \cap DOMAIN apduStatusWords[k1]} :
         k1 \in DOMAIN apduStatusWords}

----------------------------------------------------------------------------
(* Properties *)

\* C1: whenever constructing an APDU succeeds, the lc field is not 2 bytes
\* long and its big-endian value equals the length of the data field.
C1_LcMatchesData ==
  (IsConstruction /\ ret.kind = "APDU") =>
    (Len(ret.lc) # 2 /\ LcValue(ret.lc) = Len(ret.data))

\* C2: for an array of at least 4 integers in [0,255] and either extended
\* flag, construction succeeds with cla, ins, p1, p2 the bytes 0..3, lc the
\* bytes [4,5) or [4,7), data the n bytes after lc and le the remaining bytes.
C2_ArrayDecomposition ==
  (IsConstruction /\ call.isArray /\ Len(call.value) >= 4 /\ AllEntriesValid) =>
    ret = ExpectedFields(call.value, call.extendedFrames)

\* C3: for a string of (at least 4) space-separated two-hex-digit tokens,
\* construction succeeds with the fields of the array of the tokens' values.
C3_StringDecomposition ==
  (IsConstruction /\ ~call.isArray /\ Len(Entries) >= 4 /\ AllEntriesValid) =>
    ret = ExpectedFields(EntryBytes, call.extendedFrames)

\* C4: validateByte accepts b iff 0 <= b <= 255, and validateByteString
\* accepts a two-character string iff both characters are hexadecimal digits.
C4_ByteValidity ==
  /\ call.fn = "validateByte" => (ret.value <=> IsByte(call.value))
  /\ (call.fn = "validateByteString" /\ Len(call.value) = 2) =>
       (ret.value <=> (call.value[1] \in HexChars /\ call.value[2] \in HexChars))

\* C5: an input of fewer than 4 entries that are all valid bytes never yields
\* an APDU: construction fails with the "Insufficient bytes" APDUError.
C5_MinimumLength ==
  (IsConstruction /\ AllEntriesValid /\ Len(Entries) < 4) =>
    (ret.kind = "APDUError" /\ ret.message = validateAPDUMessage)

\* C6: when the set S of indices of invalid entries is not empty, construction
\* fails with an APDUError that lists exactly S and whose rendering brackets
\* exactly the entries at the indices of S.
C6_HighlightExactlyInvalid ==
  (IsConstruction /\ InvalidIndexSet # {}) =>
    /\ ret.kind = "APDUError"
    /\ {ret.invalidIndices[i] : i \in 1..Len(ret.invalidIndices)} = InvalidIndexSet
    /\ Len(ret.highlighted) = Len(Entries)
    /\ \A i \in 1..Len(Entries) :
         ret.highlighted[i] = IF (i - 1) \in InvalidIndexSet
                              THEN "[" \o ret.text[i] \o "]"
                              ELSE ret.text[i]

\* C7: a response of length >= 3 whose last two bytes equal the expected pair
\* is returned as data = response[0 .. len-2), sw1 = response[len-2],
\* sw2 = response[len-1].
C7_StatusSuccess ==
  (IsResponse /\ RespLen >= 3 /\ ExpectedIsPair /\ TrailerIs(call.expected)) =>
    ret = [kind |-> "result",
           data |-> SubSeq(call.bytes, 1, RespLen - 2),
           sw1 |-> <<Sw1>>,
           sw2 |-> <<Sw2>>]

C7_Witness ==
  /\ IsResponse /\ ~call.expectedGiven
  /\ call.bytes = <<0, 144, 0>>
  /\ ret.kind = "result" /\ ret.data = <<0>>
  /\ ret.sw1 = <<144>> /\ ret.sw2 = <<0>>

\* C8 as stated: whenever the trailing two bytes of a response (of any
\* length that has a trailer, as [0x6A,0x82]) differ from the expected pair
\* and have an exact table entry, the call fails with the APDUError whose
\* message is the entry's severity tag followed by its description.
C8_KnownStatusAnyLength ==
  (IsResponse /\ RespLen >= 2 /\ ExpectedIsPair /\ ~TrailerIs(call.expected)
     /\ HasExactEntry) =>
    (ret.kind = "APDUError" /\ ret.message = KnownStatusMessage)

\* C8 amended: the same for responses of length >= 3; a shorter response
\* fails with "Insufficient byte length" whatever its trailer.
C8_KnownStatus ==
  /\ (IsResponse /\ RespLen >= 3 /\ ExpectedIsPair /\ ~TrailerIs(call.expected)
        /\ HasExactEntry) =>
       (ret.kind = "APDUError" /\ ret.message = KnownStatusMessage)
  /\ (IsResponse /\ RespLen < 3) =>
       (ret.kind = "APDUError" /\ ret.message = "Insufficient byte length")

C8_Witness ==
  /\ IsResponse /\ call.bytes = <<0, 106, 130>> /\ call.expected = <<144, 0>>
  /\ ret.kind = "APDUError" /\ ret.message = "(Error) File not found"

\* C9: a response of length >= 3 whose trailer differs from the expected pair
\* and has no exact table entry fails with the "Unexpected response" APDUError
\* naming sw1 and sw2 as two uppercase hexadecimal digits each; no response
\* produces the message of a wildcard ("XX", "FX") entry.
C9_UnknownTrailer ==
  /\ (IsResponse /\ RespLen >= 3 /\ ExpectedIsPair /\ ~TrailerIs(call.expected)
        /\ ~HasExactEntry) =>
       (ret.kind = "APDUError" /\ ret.message = UnexpectedMessage)
  /\ (IsResponse /\ ret.kind = "APDUError") => ret.message \notin WildcardMessages

C9_Witness ==
  /\ IsResponse /\ call.bytes = <<0, 110, 1>> /\ call.expected = <<144, 0>>
  /\ ret.kind = "APDUError"
  /\ ret.message = "Unexpected response. Status words: 6E, 01"

\* C10 as stated: with an expected argument that is not exactly two bytes
\* long, a response of length >= 3 is handled as with expected = (0x90,0x00):
\* it succeeds iff its trailer is 90 00, and fails with the same error.
C10_MalformedExpectedFallsBack ==
  (IsResponse /\ call.expectedGiven /\ RespLen >= 3 /\ Len(call.expected) # 2) =>
    /\ ret = handleAPDUResponse(call.bytes, <<144, 0>>)
    /\ ret.kind = "result" <=> TrailerIs(<<144, 0>>)

\* C10 amended: the same for an expected argument shorter than two bytes
\* (length 0 or 1).
C10_ShortExpectedFallsBack ==
  (IsResponse /\ call.expectedGiven /\ RespLen >= 3 /\ Len(call.expected) < 2) =>
    /\ ret = handleAPDUResponse(call.bytes, <<144, 0>>)
    /\ ret.kind = "result" <=> TrailerIs(<<144, 0>>)

C10_Witness ==
  /\ IsResponse /\ call.expectedGiven /\ call.expected = <<130>>
  /\ call.bytes = <<0, 144, 0>>
  /\ ret.kind = "result" /\ ret.data = <<0>>

====
